---- MODULE Spec2Model ----
(***************************************************************************)
(* A model of heman's raster operators (src/src/ops.c).                    *)
(*                                                                         *)
(* The state is a heap of images (every image ever created, with a live    *)
(* flag), the record of the operator call made last, and, while one of the *)
(* three `#pragma omp parallel for` loops runs, the state of that loop.    *)
(*                                                                         *)
(* HEMAN_FLOAT values are modelled as exact rationals <<n, d>> in lowest   *)
(* terms: the arithmetic of the operators is kept (sums, products,         *)
(* quotients, comparisons), floating point rounding is not.                *)
(***************************************************************************)
EXTENDS Integers, Sequences, FiniteSets, TLC

\* ------------------------------------------------------------- bounds
MaxW == 2
MaxH == 2
MaxPix == 1
MaxAcc == 2

\* ---------------------------------------------------------- HEMAN_FLOAT
Abs(n) == IF n < 0 THEN -n ELSE n

RECURSIVE GCD(_, _)
GCD(a, b) == IF b = 0 THEN a ELSE GCD(b, a % b)

\* <<n, d>> in lowest terms; whatever is computed from garbage is garbage.
Norm(n, d) ==
    LET s == IF d < 0 THEN -1 ELSE 1
        g == GCD(Abs(n), Abs(d))
    IN  IF d = 0 THEN <<0, 0>> ELSE <<(s * n) \div g, (s * d) \div g>>

F(n) == <<n, 1>>
FAdd(a, b) == Norm(a[1] * b[2] + b[1] * a[2], a[2] * b[2])
FSub(a, b) == Norm(a[1] * b[2] - b[1] * a[2], a[2] * b[2])
FMul(a, b) == Norm(a[1] * b[1], a[2] * b[2])
FDiv(a, b) == Norm(a[1] * b[2], a[2] * b[1])
FGt(a, b) == a[1] * b[2] > b[1] * a[2]
FGe(a, b) == a[1] * b[2] >= b[1] * a[2]

\* The content of memory that was allocated and never written.
Uninit == <<0, 0>>

MIN(a, b) == IF a < b THEN a ELSE b
MAX(a, b) == IF a > b THEN a ELSE b
CLAMP(v, lo, hi) == IF FGt(lo, v) THEN lo ELSE IF FGt(v, hi) THEN hi ELSE v

\* ---------------------------------------------------------------- images
Image(w, h, n, d) == [width |-> w, height |-> h, nbands |-> n, data |-> d]

heman_image_create(w, h, n) == Image(w, h, n, [i \in 1 .. w * h * n |-> Uninit])

\* The offset, in samples, of texel (x, y) in the image's buffer.
heman_image_texel(img, x, y) == (y * img.width + x) * img.nbands

\* *(p + off) of a buffer: a sample outside the buffer is garbage.
Load(data, off) == IF off + 1 \in DOMAIN data THEN data[off + 1] ELSE Uninit

\* The buffer after the consecutive stores vals[1], vals[2], ... from offset off on.
StoreAll(data, off, vals) ==
    [i \in DOMAIN data |->
        IF i - off \in DOMAIN vals THEN vals[i - off] ELSE data[i]]

\* What a call does: it aborts on an assertion (fatal), or returns; created
\* are the images it allocated, in order, up to that point; ret is the index in
\* created of the image it returns (0: none), freed the indexes it destroyed.
Fatal(created) == [fatal |-> TRUE, created |-> created, ret |-> 0, freed |-> {}]
Return(created, ret, freed) ==
    [fatal |-> FALSE, created |-> created, ret |-> ret, freed |-> freed]

\* ------------------------------------------------------- heman_ops_step
heman_ops_step(hmap, threshold) ==
    IF hmap.nbands # 1 THEN Fatal(<<>>)
    ELSE
    LET result == heman_image_create(hmap.width, hmap.height, 1)
        size == hmap.height * hmap.width
        vals == [i \in 1 .. size |->
                    IF FGe(Load(hmap.data, i - 1), threshold) THEN F(1) ELSE F(0)]
    IN  Return(<<[result EXCEPT !.data = StoreAll(@, 0, vals)]>>, 1, {})

\* ------------------------------------------------------ heman_ops_sweep
RECURSIVE RowAcc(_, _, _)
\* acc after adding the n samples from offset off on, in order.
RowAcc(data, off, n) ==
    IF n = 0 THEN F(0) ELSE FAdd(RowAcc(data, off, n - 1), Load(data, off + n - 1))

\* A sweep whose acc is not reset between the rows.
heman_ops_sweep_running(hmap) ==
    IF hmap.nbands # 1 THEN Fatal(<<>>)
    ELSE
    LET result == heman_image_create(hmap.height, 1, 1)
        invw == FDiv(F(1), F(hmap.width))
        vals == [y \in 1 .. hmap.height |->
                    FMul(RowAcc(hmap.data, 0, y * hmap.width), invw)]
    IN  Return(<<[result EXCEPT !.data = StoreAll(@, 0, vals)]>>, 1, {})

heman_ops_sweep(hmap) ==
    IF hmap.nbands # 1 THEN Fatal(<<>>)
    ELSE
    LET result == heman_image_create(hmap.height, 1, 1)
        invw == FDiv(F(1), F(hmap.width))
        vals == [y \in 1 .. hmap.height |->
                    FMul(RowAcc(hmap.data, (y - 1) * hmap.width, hmap.width), invw)]
    IN  Return(<<[result EXCEPT !.data = StoreAll(@, 0, vals)]>>, 1, {})

\* ------------------------------------------- heman_ops_stitch_vertical
SizeofFloat == 4
SizeofHemanFloat == 4

\* memcpy(dst + off, src, nbytes) between buffers of HEMAN_FLOAT.
memcpy(dstdata, off, srcdata, nbytes) ==
    StoreAll(dstdata, off,
             [i \in 1 .. (nbytes \div SizeofHemanFloat) |-> Load(srcdata, i - 1)])

\* Whether images[2 .. count] have the shape of images[1]: the three
\* assertions of the stitch operators' loop.
SameShapes(images, count) ==
    \A i \in 2 .. count :
        /\ images[i].width = images[1].width
        /\ images[i].height = images[1].height
        /\ images[i].nbands = images[1].nbands

RECURSIVE StitchVTiles(_, _, _, _)
\* The result's buffer after the tiles 0 .. ntiles - 1 are copied.
StitchVTiles(images, data, size, ntiles) ==
    IF ntiles = 0 THEN data
    ELSE memcpy(StitchVTiles(images, data, size, ntiles - 1),
                (ntiles - 1) * size, images[ntiles].data, size * SizeofFloat)

\* A vertical stitch whose size leaves nbands out.
heman_ops_stitch_vertical_nobands(images, count) ==
    IF count <= 0 THEN Fatal(<<>>)
    ELSE IF ~SameShapes(images, count) THEN Fatal(<<>>)
    ELSE
    LET width == images[1].width
        height == images[1].height
        nbands == images[1].nbands
        result == heman_image_create(width, height * count, nbands)
        size == width * height
    IN  Return(<<[result EXCEPT !.data = StitchVTiles(images, @, size, count)]>>,
               1, {})

heman_ops_stitch_vertical(images, count) ==
    IF count <= 0 THEN Fatal(<<>>)
    ELSE IF ~SameShapes(images, count) THEN Fatal(<<>>)
    ELSE
    LET width == images[1].width
        height == images[1].height
        nbands == images[1].nbands
        result == heman_image_create(width, height * count, nbands)
        size == width * height * nbands
    IN  Return(<<[result EXCEPT !.data = StitchVTiles(images, @, size, count)]>>,
               1, {})

\* -------------------------------------------------- heman_ops_normalize_f32
heman_ops_normalize_f32(source, minv, maxv) ==
    LET result == heman_image_create(source.width, source.height, source.nbands)
        scale == FDiv(F(1), FSub(maxv, minv))
        size == source.height * source.width * source.nbands
        vals == [i \in 1 .. size |->
                    CLAMP(FMul(FSub(Load(source.data, i - 1), minv), scale),
                          F(0), F(1))]
    IN  Return(<<[result EXCEPT !.data = StoreAll(@, 0, vals)]>>, 1, {})

\* ---------------------------------------------------- heman_ops_accumulate
\* An accumulate that does not assert the heights equal.
heman_ops_accumulate_noheight(dst, src) ==
    IF \/ dst.nbands # src.nbands
       \/ dst.width # src.width
    THEN [fatal |-> TRUE, data |-> dst.data]
    ELSE
    LET size == dst.height * dst.width
        vals == [i \in 1 .. size |->
                    FAdd(Load(dst.data, i - 1), Load(src.data, i - 1))]
    IN  [fatal |-> FALSE, data |-> StoreAll(dst.data, 0, vals)]

\* The call's outcome: fatal, or dst's buffer after the loop.
heman_ops_accumulate(dst, src) ==
    IF \/ dst.nbands # src.nbands
       \/ dst.width # src.width
       \/ dst.height # src.height
    THEN [fatal |-> TRUE, data |-> dst.data]
    ELSE
    LET size == dst.height * dst.width
        vals == [i \in 1 .. size |->
                    FAdd(Load(dst.data, i - 1), Load(src.data, i - 1))]
    IN  [fatal |-> FALSE, data |-> StoreAll(dst.data, 0, vals)]

\* ------------------------------------------------ the row-parallel loops
\* What one iteration of a parallel loop does: the samples it reads, as
\* <<image, offset>> with image the argument's position (0: the transient
\* grayscale image), and its stores into the result's buffer, in order, as
\* <<offset, value>>.
Ev(reads, writes) == [reads |-> reads, writes |-> writes]

RECURSIVE Gather(_, _)
\* The iterations f[0], ..., f[n - 1], one after the other.
Gather(f, n) ==
    IF n = 0 THEN Ev({}, <<>>)
    ELSE LET r == Gather(f, n - 1)
         IN  Ev(r.reads \cup f[n - 1].reads, r.writes \o f[n - 1].writes)

\* ------------------------------------------------------------- copy_row
\* A copy_row that leaves dstx out of the destination texel.
copy_row_nodstx(src, k, dst, dstx, y) ==
    LET width == src.width
        many(x) ==
            LET srcp == heman_image_texel(src, x, y)
                dstp == heman_image_texel(dst, x, y)
            IN  Ev({<<k, srcp + b>> : b \in 0 .. src.nbands - 1},
                   [b \in 1 .. src.nbands |->
                       <<dstp + b - 1, Load(src.data, srcp + b - 1)>>])
    IN  Gather([x \in 0 .. width - 1 |-> many(x)], width)

\* src is images[k]; dst is the result (its shape is all that is read of it).
copy_row(src, k, dst, dstx, y) ==
    LET width == src.width
        one(x) ==
            LET srcp == heman_image_texel(src, x, y)
                dstp == heman_image_texel(dst, dstx + x, y)
            IN  Ev({<<k, srcp>>}, <<<<dstp, Load(src.data, srcp)>>>>)
        many(x) ==
            LET srcp == heman_image_texel(src, x, y)
                dstp == heman_image_texel(dst, dstx + x, y)
            IN  Ev({<<k, srcp + b>> : b \in 0 .. src.nbands - 1},
                   [b \in 1 .. src.nbands |->
                       <<dstp + b - 1, Load(src.data, srcp + b - 1)>>])
    IN  IF src.nbands = 1
        THEN Gather([x \in 0 .. width - 1 |-> one(x)], width)
        ELSE Gather([x \in 0 .. width - 1 |-> many(x)], width)

\* ----------------------------------------- heman_ops_stitch_horizontal
\* The call up to its parallel loop.
heman_ops_stitch_horizontal(images, count) ==
    IF count <= 0 THEN Fatal(<<>>)
    ELSE IF ~SameShapes(images, count) THEN Fatal(<<>>)
    ELSE Return(<<heman_image_create(images[1].width * count, images[1].height,
                                     images[1].nbands)>>, 1, {})

\* The loop's iteration y.
stitch_horizontal_row(images, count, result, y) ==
    LET width == images[1].width
    IN  Gather([tile \in 0 .. count - 1 |->
                   copy_row(images[tile + 1], tile + 1, result, tile * width, y)],
               count)

\* --------------------------------------------------- heman_ops_laplacian
heman_ops_laplacian(heightmap) ==
    IF heightmap.nbands # 1 THEN Fatal(<<>>)
    ELSE Return(<<heman_image_create(heightmap.width, heightmap.height, 1)>>, 1, {})

\* A laplacian row that does not clamp x + 1.
laplacian_row_noclamp(heightmap, y) ==
    LET width == heightmap.width
        height == heightmap.height
        maxy == height - 1
        y1 == MIN(y + 1, maxy)
        dst == y * width
        pixel(x) ==
            LET x1 == x + 1
                op == heman_image_texel(heightmap, x, y)
                opx == heman_image_texel(heightmap, x1, y)
                opy == heman_image_texel(heightmap, x, y1)
                p == Load(heightmap.data, op)
                px == Load(heightmap.data, opx)
                py == Load(heightmap.data, opy)
            IN  Ev({<<1, op>>, <<1, opx>>, <<1, opy>>},
                   <<<<dst + x, FAdd(FMul(FSub(p, px), FSub(p, px)),
                                     FMul(FSub(p, py), FSub(p, py)))>>>>)
    IN  Gather([x \in 0 .. width - 1 |-> pixel(x)], width)

laplacian_row(heightmap, y) ==
    LET width == heightmap.width
        height == heightmap.height
        maxx == width - 1
        maxy == height - 1
        y1 == MIN(y + 1, maxy)
        dst == y * width
        pixel(x) ==
            LET x1 == MIN(x + 1, maxx)
                op == heman_image_texel(heightmap, x, y)
                opx == heman_image_texel(heightmap, x1, y)
                opy == heman_image_texel(heightmap, x, y1)
                p == Load(heightmap.data, op)
                px == Load(heightmap.data, opx)
                py == Load(heightmap.data, opy)
            IN  Ev({<<1, op>>, <<1, opx>>, <<1, opy>>},
                   <<<<dst + x, FAdd(FMul(FSub(p, px), FSub(p, px)),
                                     FMul(FSub(p, py), FSub(p, py)))>>>>)
    IN  Gather([x \in 0 .. width - 1 |-> pixel(x)], width)

\* ------------------------------------------------------- heman_ops_sobel
\* kmVec3Lerp: a + t * (b - a), per component.
kmVec3Lerp(a, b, t) == [c \in 1 .. 3 |-> FAdd(a[c], FMul(t, FSub(b[c], a[c])))]

\* heman_color_to_grayscale with conversion g (a map from colours to gray levels).
heman_color_to_grayscale(img, g) ==
    Image(img.width, img.height, 1,
          [i \in 1 .. img.width * img.height |->
              g[<<img.data[3 * i - 2], img.data[3 * i - 1], img.data[3 * i]>>]])

\* The call up to its parallel loop.
heman_ops_sobel(img, edge_color, g) ==
    IF img.nbands # 3 THEN Fatal(<<>>)
    ELSE Return(<<heman_image_create(img.width, img.height, 3),
                  heman_color_to_grayscale(img, g)>>, 1, {})

\* The colour the loop blends with.
sobel_edge_rgb(edge_color) == <<F(0), F(0), F(0)>>

SobelThreshold == <<1, 100000>>

\* gx * gx + gy * gy at pixel (x, y) of the grayscale image.
sobel_energy(gray, width, height, x, y) ==
    LET G(xx, yy) == Load(gray.data, heman_image_texel(gray, xx, yy))
        xm1 == MAX(x - 1, 0)
        xp1 == MIN(x + 1, width - 1)
        ym1 == MAX(y - 1, 0)
        yp1 == MIN(y + 1, height - 1)
        t00 == G(xm1, ym1)
        t10 == G(x, ym1)
        t20 == G(xp1, ym1)
        t01 == G(xm1, 0)
        t21 == G(xp1, 0)
        t02 == G(xm1, yp1)
        t12 == G(x, yp1)
        t22 == G(xp1, yp1)
        gx == FSub(FSub(FSub(FAdd(FAdd(t00, FMul(F(2), t01)), t02), t20),
                        FMul(F(2), t21)), t22)
        gy == FSub(FSub(FSub(FAdd(FAdd(t00, FMul(F(2), t10)), t20), t02),
                        FMul(F(2), t12)), t22)
    IN  FAdd(FMul(gx, gx), FMul(gy, gy))

\* The texels of the grayscale image read at pixel (x, y).
sobel_reads(gray, width, height, x, y) ==
    LET T(xx, yy) == heman_image_texel(gray, xx, yy)
        xm1 == MAX(x - 1, 0)
        xp1 == MIN(x + 1, width - 1)
        ym1 == MAX(y - 1, 0)
        yp1 == MIN(y + 1, height - 1)
    IN  {T(xm1, ym1), T(x, ym1), T(xp1, ym1), T(xm1, 0), T(xp1, 0),
         T(xm1, yp1), T(x, yp1), T(xp1, yp1)}

\* A sobel row whose dst leaves the row out: every row writes the first.
sobel_row_norowbase(img, gray, edge_color, y) ==
    LET width == img.width
        height == img.height
        edge_rgb == sobel_edge_rgb(edge_color)
        dst == 0
        src == (y * width) * 3
        pixel(x) ==
            LET is_edge == IF FGt(sobel_energy(gray, width, height, x, y), SobelThreshold)
                           THEN F(1) ELSE F(0)
                a == [c \in 1 .. 3 |-> Load(img.data, src + 3 * x + c - 1)]
                out == kmVec3Lerp(a, edge_rgb, is_edge)
            IN  Ev({<<0, t>> : t \in sobel_reads(gray, width, height, x, y)}
                       \cup {<<1, src + 3 * x + c>> : c \in 0 .. 2},
                   [c \in 1 .. 3 |-> <<dst + 3 * x + c - 1, out[c]>>])
    IN  Gather([x \in 0 .. width - 1 |-> pixel(x)], width)

sobel_row(img, gray, edge_color, y) ==
    LET width == img.width
        height == img.height
        edge_rgb == sobel_edge_rgb(edge_color)
        dst == (y * width) * 3
        src == (y * width) * 3
        pixel(x) ==
            LET is_edge == IF FGt(sobel_energy(gray, width, height, x, y), SobelThreshold)
                           THEN F(1) ELSE F(0)
                a == [c \in 1 .. 3 |-> Load(img.data, src + 3 * x + c - 1)]
                out == kmVec3Lerp(a, edge_rgb, is_edge)
            IN  Ev({<<0, t>> : t \in sobel_reads(gray, width, height, x, y)}
                       \cup {<<1, src + 3 * x + c>> : c \in 0 .. 2},
                   [c \in 1 .. 3 |-> <<dst + 3 * x + c - 1, out[c]>>])
    IN  Gather([x \in 0 .. width - 1 |-> pixel(x)], width)

\* ================================================================ state
VARIABLES
    heap,   \* every image created so far: [img, live], by identity 1, 2, ...
    pc,     \* "idle" (before a call), "par" (inside a parallel loop),
            \* "returned" or "aborted"
    call,   \* the call made last (or running): operator, arguments, result
    par,    \* the running parallel loop
    hist,   \* per accumulate destination: its buffer before, the sources added
            \* (their buffers then, and which images they were)
    nacc    \* the number of accumulate calls made

vars == <<heap, pc, call, par, hist, nacc>>

Workers == {1, 2}
Bands == {1, 3}

\* ---------------------------------------------------------------- inputs
\* The colour of palette entry p in an image of n bands.
PixelColor(p, n) == [b \in 1 .. n |-> F(p * n + b - 1)]

\* The w x h image of n bands whose pixel (x, y) has palette entry
\* (a * x + b * y + c) % (MaxPix + 1).
PatternImage(w, h, n, a, b, c) ==
    Image(w, h, n,
          [i \in 1 .. w * h * n |->
              LET k == (i - 1) \div n
                  x == k % w
                  y == k \div w
              IN  PixelColor((a * x + b * y + c) % (MaxPix + 1), n)[((i - 1) % n) + 1]])

\* The w x h image of n bands whose samples are s, s + 1, ... in buffer order.
RampImage(w, h, n, s) == Image(w, h, n, [i \in 1 .. w * h * n |-> F(s + i - 1)])

PatternImages ==
    {PatternImage(w, h, n, a, b, c) :
        w \in 1 .. MaxW, h \in 1 .. MaxH, n \in Bands,
        a \in 0 .. 1, b \in 0 .. 1, c \in 0 .. MaxPix}

\* Two ramps: of one shape, or the second differing in exactly one of width,
\* height and nbands.
Variants(w, h, n) ==
    {v \in (1 .. MaxW) \X (1 .. MaxH) \X Bands :
        Cardinality({k \in 1 .. 3 : v[k] # <<w, h, n>>[k]}) <= 1}

RampPairs ==
    UNION {{<<RampImage(s[1], s[2], s[3], 0),
              RampImage(v[1], v[2], v[3], MaxW * MaxH * 3)>> :
                v \in Variants(s[1], s[2], s[3])} :
            s \in (1 .. MaxW) \X (1 .. MaxH) \X Bands}

Thresholds == {F(1)}
NormRanges == {<<F(0), F(2)>>}
EdgeColors == {<<F(1), F(0), <<1, 2>>>>}

Colours(img) ==
    {<<img.data[3 * i - 2], img.data[3 * i - 1], img.data[3 * i]>> :
        i \in 1 .. img.width * img.height}

\* The conversions to grayscale tried: the colours whose bands sum to t or more
\* are gray level 1, the others 0, for every t that tells two of the image's
\* colours apart, and for one that tells none.
Brightness(c) == FAdd(FAdd(c[1], c[2]), c[3])
GrayMaps(img) ==
    {[c \in Colours(img) |-> IF FGe(Brightness(c), t) THEN F(1) ELSE F(0)] :
        t \in {Brightness(c) : c \in Colours(img)}}

Live == {i \in DOMAIN heap : heap[i].live}
Img(i) == heap[i].img
Entry(img) == [img |-> img, live |-> TRUE]

NoPar == [todo |-> {}, by |-> <<>>, reads |-> {}, oob |-> FALSE]
NoCall ==
    [op |-> "none", args |-> <<>>, scal |-> <<>>, res |-> 0, gray |-> 0, before |-> <<>>]

InputHeaps ==
    {<<Entry(a)>> : a \in PatternImages}
        \cup {<<Entry(p[1]), Entry(p[2])>> : p \in RampPairs}

Init ==
    /\ heap \in InputHeaps
    /\ pc = "idle"
    /\ call = NoCall
    /\ par = NoPar
    /\ hist = <<>>
    /\ nacc = 0

\* The caller makes calls of accumulate only, on two ramps.
InitAcc ==
    /\ \E p \in RampPairs : heap = <<Entry(p[1]), Entry(p[2])>>
    /\ pc = "idle"
    /\ call = NoCall
    /\ par = NoPar
    /\ hist = <<>>
    /\ nacc = 0

\* -------------------------------------------------------------- the calls
\* The heap after a call with outcome o: its images are added, those it
\* destroyed are dead.
Alloc(o) ==
    heap \o [k \in 1 .. Len(o.created) |->
                [img |-> o.created[k], live |-> k \notin o.freed]]

\* A call of a sequential operator, with outcome o.
Sequential(op, args, scal, o) ==
    /\ pc = "idle"
    /\ heap' = Alloc(o)
    /\ pc' = IF o.fatal THEN "aborted" ELSE "returned"
    /\ call' = [op |-> op, args |-> args, scal |-> scal, before |-> heap, gray |-> 0,
                res |-> IF o.ret = 0 THEN 0 ELSE Len(heap) + o.ret]
    /\ UNCHANGED <<par, hist, nacc>>

\* The sequences of at most two live images: the arguments of a stitch.
ImageLists == {<<>>} \cup {<<i>> : i \in Live} \cup {<<i, j>> : i \in Live, j \in Live}
Imgs(ids) == [k \in DOMAIN ids |-> Img(ids[k])]

Step ==
    \E i \in Live, t \in Thresholds :
        Sequential("step", <<i>>, <<t>>, heman_ops_step(Img(i), t))

Sweep ==
    \E i \in Live : Sequential("sweep", <<i>>, <<>>, heman_ops_sweep(Img(i)))

StitchVertical ==
    \E ids \in ImageLists :
        Sequential("stitch_vertical", ids, <<>>,
                   heman_ops_stitch_vertical(Imgs(ids), Len(ids)))

Normalize ==
    \E i \in Live, r \in NormRanges :
        Sequential("normalize", <<i>>, r,
                   heman_ops_normalize_f32(Img(i), r[1], r[2]))

Accumulate ==
    \E d \in Live, s \in Live :
        LET o == heman_ops_accumulate(Img(d), Img(s))
            h == IF d \in DOMAIN hist THEN hist[d]
                 ELSE [orig |-> Img(d).data, srcs |-> <<>>, ids |-> <<>>]
        IN  /\ pc = "idle"
            /\ nacc' = nacc + 1
            /\ heap' = [heap EXCEPT ![d].img.data = o.data]
            /\ pc' = IF o.fatal THEN "aborted" ELSE "returned"
            /\ call' = [op |-> "accumulate", args |-> <<d, s>>, scal |-> <<>>,
                        before |-> heap, res |-> 0, gray |-> 0]
            /\ hist' = IF o.fatal THEN hist
                       ELSE [k \in DOMAIN hist \cup {d} |->
                               IF k = d
                               THEN [h EXCEPT !.srcs = Append(@, Img(s).data),
                                              !.ids = Append(@, s)]
                               ELSE hist[k]]
            /\ UNCHANGED par

\* A call of a row-parallel operator up to its loop, with outcome o.
Parallel(op, args, scal, o, gray) ==
    /\ pc = "idle"
    /\ heap' = Alloc(o)
    /\ pc' = IF o.fatal THEN "aborted" ELSE "par"
    /\ call' = [op |-> op, args |-> args, scal |-> scal, before |-> heap,
                res |-> IF o.ret = 0 THEN 0 ELSE Len(heap) + o.ret,
                gray |-> IF o.fatal \/ gray = 0 THEN 0 ELSE Len(heap) + gray]
    /\ par' = IF o.fatal THEN NoPar
              ELSE [todo |-> 0 .. o.created[1].height - 1,
                    by |-> [k \in DOMAIN o.created[1].data |-> <<>>],
                    reads |-> {},
                    oob |-> FALSE]
    /\ UNCHANGED <<hist, nacc>>

StitchHorizontal ==
    \E ids \in ImageLists :
        Parallel("stitch_horizontal", ids, <<>>,
                 heman_ops_stitch_horizontal(Imgs(ids), Len(ids)), 0)

Laplacian ==
    \E i \in Live :
        Parallel("laplacian", <<i>>, <<>>, heman_ops_laplacian(Img(i)), 0)

Sobel ==
    /\ pc = "idle"
    /\ \E i \in Live, ec \in EdgeColors :
        IF Img(i).nbands = 3
        THEN \E g \in GrayMaps(Img(i)) :
                Parallel("sobel", <<i>>, ec, heman_ops_sobel(Img(i), ec, g), 2)
        ELSE Parallel("sobel", <<i>>, ec, heman_ops_sobel(Img(i), ec, <<>>), 0)

\* Iteration y of the running loop.
RowEvents(y) ==
    CASE call.op = "stitch_horizontal" ->
            stitch_horizontal_row(Imgs(call.args), Len(call.args), Img(call.res), y)
      [] call.op = "laplacian" -> laplacian_row(Img(call.args[1]), y)
      [] call.op = "sobel" ->
            sobel_row(Img(call.args[1]), Img(call.gray), call.scal, y)

RECURSIVE ApplyWrites(_, _)
\* The buffer after the stores, in order; a store outside it is dropped.
ApplyWrites(data, writes) ==
    IF writes = <<>> THEN data
    ELSE LET w == writes[Len(writes)]
             d == ApplyWrites(data, SubSeq(writes, 1, Len(writes) - 1))
         IN  IF w[1] + 1 \in DOMAIN d THEN [d EXCEPT ![w[1] + 1] = w[2]] ELSE d

RECURSIVE Writers(_, _, _)
\* Who stored where, after worker w made the stores.
Writers(by, writes, w) ==
    IF writes = <<>> THEN by
    ELSE LET s == writes[Len(writes)]
             b == Writers(by, SubSeq(writes, 1, Len(writes) - 1), w)
         IN  IF s[1] + 1 \in DOMAIN b THEN [b EXCEPT ![s[1] + 1] = Append(@, w)] ELSE b

\* Whether an access of the iteration falls outside its buffer.
OutOfBounds(ev) ==
    \/ \E k \in DOMAIN ev.writes : ev.writes[k][1] + 1 \notin DOMAIN Img(call.res).data
    \/ \E r \in ev.reads :
          LET data == IF r[1] = 0 THEN Img(call.gray).data ELSE Img(call.args[r[1]]).data
          IN  r[2] + 1 \notin DOMAIN data

\* A worker runs one iteration of the loop: any worker, any iteration left.
Row ==
    \E w \in Workers, y \in par.todo :
        LET ev == RowEvents(y)
        IN  /\ pc = "par"
            /\ heap' = [heap EXCEPT ![call.res].img.data = ApplyWrites(@, ev.writes)]
            /\ par' = [par EXCEPT !.todo = @ \ {y},
                                  !.by = Writers(@, ev.writes, w),
                                  !.reads = @ \cup {<<w>> \o r : r \in ev.reads},
                                  !.oob = @ \/ OutOfBounds(ev)]
            /\ UNCHANGED <<pc, call, hist, nacc>>

\* A join that destroys the argument instead of the grayscale image.
JoinDestroysInput ==
    /\ pc = "par"
    /\ par.todo = {}
    /\ heap' = IF call.gray = 0 THEN heap
               ELSE [heap EXCEPT ![call.args[1]].live = FALSE]
    /\ pc' = "returned"
    /\ par' = NoPar
    /\ UNCHANGED <<call, hist, nacc>>

\* The end of the loop and the rest of the call.
Join ==
    /\ pc = "par"
    /\ par.todo = {}
    /\ heap' = IF call.gray = 0 THEN heap ELSE [heap EXCEPT ![call.gray].live = FALSE]
    /\ pc' = "returned"
    /\ par' = NoPar
    /\ UNCHANGED <<call, hist, nacc>>

\* The caller, after a call of accumulate returned, goes on to the next.
Resume ==
    /\ pc = "returned"
    /\ nacc < MaxAcc
    /\ pc' = "idle"
    /\ UNCHANGED <<heap, call, par, hist, nacc>>

Next ==
    \/ Step
    \/ Sweep
    \/ StitchVertical
    \/ Normalize
    \/ Accumulate
    \/ StitchHorizontal
    \/ Laplacian
    \/ Sobel
    \/ Row
    \/ Join

Spec == Init /\ [][Next]_vars

NextAcc == Accumulate \/ Resume

SpecAcc == InitAcc /\ [][NextAcc]_vars

\* =============================================================== claims
Returned(op) == pc = "returned" /\ call.op = op

\* The k-th argument as it was when the call was made, and the result.
Arg(k) == call.before[call.args[k]].img
Result == Img(call.res)

\* Sample (x, y, b) of an image, by the layout of the data model: row-major,
\* the bands of a pixel side by side.
Sample(img, x, y, b) == img.data[(y * img.width + x) * img.nbands + b + 1]

Samples(img) == img.width * img.height * img.nbands

RECURSIVE SumTo(_, _)
\* f[1] + ... + f[n].
SumTo(f, n) == IF n = 0 THEN F(0) ELSE FAdd(SumTo(f, n - 1), f[n])

\* C1: after accumulate(dst, src) returns, dst and src two images of one
\* shape, every sample i of dst, of any number of bands, is
\* dst_before[i] + src[i].
C1_AccumulateAddsEverySample ==
    (Returned("accumulate") /\ call.args[1] # call.args[2]) =>
        /\ Len(Img(call.args[1]).data) = Samples(Arg(1))
        /\ \A i \in 1 .. Samples(Arg(1)) :
              Img(call.args[1]).data[i] = FAdd(Arg(1).data[i], Arg(2).data[i])

\* C2: after sobel returns, every pixel whose gx^2 + gy^2 exceeds 1e-5 has the
\* edge colour the caller passed, and every other pixel its input colour.
C2_SobelPaintsEdgeColor ==
    Returned("sobel") =>
        \A x \in 0 .. Arg(1).width - 1, y \in 0 .. Arg(1).height - 1, b \in 0 .. 2 :
            Sample(Result, x, y, b) =
                IF FGt(sobel_energy(Img(call.gray), Arg(1).width, Arg(1).height, x, y),
                       <<1, 100000>>)
                THEN call.scal[b + 1]
                ELSE Sample(Arg(1), x, y, b)

\* The mean of row y of a single-band image.
RowMean(img, y) ==
    FDiv(SumTo([x \in 1 .. img.width |-> Sample(img, x - 1, y, 0)], img.width),
         F(img.width))

\* C3, as stated: sweep returns a single-band image of width 1 and of the
\* input's height, whose sample for row y is the mean of the input's row y.
C3_SweepIsOneWide ==
    Returned("sweep") =>
        /\ Result.width = 1
        /\ Result.height = Arg(1).height
        /\ Result.nbands = 1
        /\ Len(Result.data) = Arg(1).height
        /\ \A y \in 0 .. Arg(1).height - 1 : Result.data[y + 1] = RowMean(Arg(1), y)

\* C3, amended: sweep returns a single-band image of height 1 and of width the
\* input's height, whose sample y is the mean of the input's row y.
C3_SweepIsOneHigh ==
    Returned("sweep") =>
        /\ Result.width = Arg(1).height
        /\ Result.height = 1
        /\ Result.nbands = 1
        /\ Len(Result.data) = Arg(1).height
        /\ \A y \in 0 .. Arg(1).height - 1 : Result.data[y + 1] = RowMean(Arg(1), y)

C3_Witness ==
    /\ Returned("sweep")
    /\ Arg(1).width >= 2
    /\ Arg(1).height >= 2
    /\ \E y \in 0 .. Arg(1).height - 1 : Result.data[y + 1][2] > 1

\* C4: stitchHorizontal of count >= 1 images of one shape returns an image of
\* width width * count, of their height and nbands, whose sample
\* (i * width + x, y, b) is sample (x, y, b) of image i.
C4_StitchHorizontal ==
    Returned("stitch_horizontal") =>
        LET count == Len(call.args)
        IN  /\ Result.width = Arg(1).width * count
            /\ Result.height = Arg(1).height
            /\ Result.nbands = Arg(1).nbands
            /\ Len(Result.data) = Samples(Result)
            /\ \A i \in 0 .. count - 1, x \in 0 .. Arg(1).width - 1,
                  y \in 0 .. Arg(1).height - 1, b \in 0 .. Arg(1).nbands - 1 :
                    Sample(Result, i * Arg(1).width + x, y, b) = Sample(Arg(i + 1), x, y, b)

C4_Witness ==
    /\ Returned("stitch_horizontal")
    /\ Len(call.args) = 2
    /\ call.args[1] # call.args[2]
    /\ Arg(1).width = 2
    /\ Arg(1).height = 2
    /\ Arg(1).nbands = 3

\* C5: stitchVertical of count >= 1 images of one shape returns an image of
\* their width and nbands, of height height * count, whose rows
\* [i * height, (i + 1) * height) are image i, sample for sample: the whole of
\* image i lies at offset i * width * height * nbands.
C5_StitchVertical ==
    Returned("stitch_vertical") =>
        LET count == Len(call.args)
            size == Samples(Arg(1))
        IN  /\ Result.width = Arg(1).width
            /\ Result.height = Arg(1).height * count
            /\ Result.nbands = Arg(1).nbands
            /\ Len(Result.data) = size * count
            /\ \A i \in 0 .. count - 1 :
                  /\ \A k \in 1 .. size : Result.data[i * size + k] = Arg(i + 1).data[k]
                  /\ \A x \in 0 .. Arg(1).width - 1, y \in 0 .. Arg(1).height - 1,
                        b \in 0 .. Arg(1).nbands - 1 :
                          Sample(Result, x, i * Arg(1).height + y, b)
                              = Sample(Arg(i + 1), x, y, b)

C5_Witness ==
    /\ Returned("stitch_vertical")
    /\ Len(call.args) = 2
    /\ call.args[1] # call.args[2]
    /\ Arg(1).width = 2
    /\ Arg(1).height = 2
    /\ Arg(1).nbands = 3

ParallelOps == {"stitch_horizontal", "laplacian", "sobel"}

\* The heap identity of what a read names: the transient grayscale image (0)
\* or an argument.
ReadImage(k) == IF k = 0 THEN call.gray ELSE call.args[k]

RECURSIVE SequentialRows(_)
\* The result's buffer after the iterations 0, ..., n - 1 run in that order.
SequentialRows(n) ==
    IF n = 0 THEN [k \in DOMAIN Result.data |-> Uninit]
    ELSE ApplyWrites(SequentialRows(n - 1), RowEvents(n - 1).writes)

\* C6: in the row-parallel operators, whichever worker runs whichever row in
\* whichever order, no sample of the result is written twice and each is
\* written once when the loop ends, no access falls outside its buffer, no
\* worker writes a location another worker reads or writes, and the image
\* returned is the one the rows give when run in order.
C6_RowsIndependent ==
    /\ pc = "par" =>
          /\ ~par.oob
          /\ \A k \in DOMAIN par.by :
                /\ Len(par.by[k]) <= 1
                /\ par.todo = {} => Len(par.by[k]) = 1
                /\ \A r \in par.reads :
                      (ReadImage(r[2]) = call.res /\ r[3] + 1 = k)
                          => \A j \in DOMAIN par.by[k] : par.by[k][j] = r[1]
    /\ (pc = "returned" /\ call.op \in ParallelOps) =>
          Result.data = SequentialRows(Result.height)

C6_Witness ==
    /\ pc = "par"
    /\ call.op = "sobel"
    /\ par.todo = {}
    /\ \E j, k \in DOMAIN par.by : par.by[j] = <<1>> /\ par.by[k] = <<2>>

SameShape(a, b) ==
    a.width = b.width /\ a.height = b.height /\ a.nbands = b.nbands

\* Whether the call made last violates its operator's shape precondition.
PreconditionViolated ==
    CASE call.op \in {"step", "sweep", "laplacian"} -> Arg(1).nbands # 1
      [] call.op = "sobel" -> Arg(1).nbands # 3
      [] call.op \in {"stitch_horizontal", "stitch_vertical"} ->
            \/ Len(call.args) < 1
            \/ \E i \in DOMAIN call.args : ~SameShape(Arg(i), Arg(1))
      [] call.op = "accumulate" -> ~SameShape(Arg(1), Arg(2))
      [] OTHER -> FALSE

\* C7: a call whose shape precondition is violated aborts, and only such a
\* call does; when it aborts no image was created and no sample written (for
\* accumulate, dst is as it was), and no image is returned.
C7_FailFast ==
    call.op # "none" =>
        IF PreconditionViolated
        THEN pc = "aborted" /\ heap = call.before /\ call.res = 0
        ELSE pc # "aborted"

C7_Witness ==
    /\ pc = "aborted"
    /\ call.op = "accumulate"
    /\ Arg(1).width = Arg(2).width
    /\ Arg(1).nbands = Arg(2).nbands
    /\ Arg(1).height # Arg(2).height

\* C8: whatever call was made, every image that existed before it is alive and
\* has its shape and its samples, except that accumulate changes the samples
\* (only) of dst; the image returned is none of them, and is alive.
C8_InputsUntouched ==
    call.op # "none" =>
        /\ \A i \in DOMAIN call.before :
              /\ heap[i].live = call.before[i].live
              /\ SameShape(heap[i].img, call.before[i].img)
              /\ \/ heap[i].img.data = call.before[i].img.data
                 \/ call.op = "accumulate" /\ i = call.args[1]
        /\ call.res # 0 => call.res \notin DOMAIN call.before /\ heap[call.res].live

C8_Witness ==
    /\ Returned("sobel")
    /\ ~heap[call.gray].live
    /\ heap[call.args[1]].live

Sq(v) == FMul(v, v)

\* C9: laplacian of a single-band image returns a single-band image of its
\* shape with (p - px)^2 + (p - py)^2 at (x, y), where p = in(x, y),
\* px = in(min(x + 1, width - 1), y), py = in(x, min(y + 1, height - 1)): the
\* x-term is 0 in the last column, the y-term in the last row; and no sample
\* outside the input is read.
C9_Laplacian ==
    /\ (pc = "par" /\ call.op = "laplacian") =>
          /\ ~par.oob
          /\ \A r \in par.reads : r[2] = 1 /\ r[3] \in 0 .. Samples(Arg(1)) - 1
    /\ Returned("laplacian") =>
          LET in == Arg(1)
              w == in.width
              h == in.height
          IN  /\ SameShape(Result, in)
              /\ Len(Result.data) = w * h
              /\ \A x \in 0 .. w - 1, y \in 0 .. h - 1 :
                    LET p == Sample(in, x, y, 0)
                        px == Sample(in, IF x + 1 < w - 1 THEN x + 1 ELSE w - 1, y, 0)
                        py == Sample(in, x, IF y + 1 < h - 1 THEN y + 1 ELSE h - 1, 0)
                    IN  /\ Sample(Result, x, y, 0) = FAdd(Sq(FSub(p, px)), Sq(FSub(p, py)))
                        /\ x = w - 1 => Sample(Result, x, y, 0) = Sq(FSub(p, py))
                        /\ y = h - 1 => Sample(Result, x, y, 0) = Sq(FSub(p, px))

C9_Witness ==
    /\ Returned("laplacian")
    /\ Arg(1).width = 1
    /\ Arg(1).height = 2
    /\ Result.data[1] # F(0)

\* dst's buffer after accumulate(dst, src), dst and src of shape like.
Accumulated(like, dstdata, srcdata) ==
    heman_ops_accumulate([like EXCEPT !.data = dstdata],
                         [like EXCEPT !.data = srcdata]).data

\* C10: for sources other than dst, accumulate(dst, a); accumulate(dst, b) leaves dst as
\* accumulate(dst, b); accumulate(dst, a) does, and as one accumulate(dst, c)
\* with c the sum of a and b, sample by sample; and k calls with one source a
\* add k times a to every sample of dst.
C10_AccumulateAlgebra ==
    \A d \in DOMAIN hist :
        LET h == hist[d]
            like == Img(d)
            k == Len(h.srcs)
        IN  (k >= 2 /\ \A j \in 1 .. k : h.ids[j] # d) =>
              /\ k = 2 =>
                    /\ like.data = Accumulated(like,
                                       Accumulated(like, h.orig, h.srcs[2]), h.srcs[1])
                    /\ like.data = Accumulated(like, h.orig,
                                       [i \in DOMAIN h.orig |->
                                           FAdd(h.srcs[1][i], h.srcs[2][i])])
              /\ (\A j \in 1 .. k : h.srcs[j] = h.srcs[1]) =>
                    \A i \in DOMAIN h.orig :
                        like.data[i] = FAdd(h.orig[i], FMul(F(k), h.srcs[1][i]))

====
